---- MODULE Spec2Model ----
(***************************************************************************)
(* HitTimeline (frontend/src/components/result/hit-timeline.tsx): the      *)
(* canvas piano roll with its minimap cache and its scroll / resize        *)
(* controller.                                                             *)
(*                                                                         *)
(* Reals are modelled exactly: a hit time is a whole number of 1/TimeRes   *)
(* seconds, and every comparison of two reals of the code is made after    *)
(* multiplying both sides by the common denominator.  A quotient that is   *)
(* kept (a scroll target, a minimap coordinate) is a pair [n, d].          *)
(***************************************************************************)
EXTENDS Integers, Sequences, FiniteSets, TLC

(***************************************************************************)
(* Program constants.                                                      *)
(***************************************************************************)
ROW_HEIGHT == 32
HEADER_WIDTH == 100
PIXELS_PER_SECOND == 80
DOT_MIN_RADIUS == 3
DOT_MAX_RADIUS == 8
MINIMAP_HEIGHT == 40
SHOW_MINIMAP_THRESHOLD == 60
bufferPx == 200

INSTRUMENT_ORDER ==
  << "crash", "ride", "hihat_closed", "hihat_open", "tom_high", "tom_mid",
     "tom_low", "snare", "kick" >>

\* Map.get of a missing key.
Undefined == -1

\* INSTRUMENT_INDEX_MAP.get(inst): the 0-based row, or undefined.
INSTRUMENT_INDEX_MAP(inst) ==
  IF \E i \in 1..Len(INSTRUMENT_ORDER) : INSTRUMENT_ORDER[i] = inst
  THEN (CHOOSE i \in 1..Len(INSTRUMENT_ORDER) : INSTRUMENT_ORDER[i] = inst) - 1
  ELSE Undefined

(***************************************************************************)
(* Bounds of the model.                                                    *)
(***************************************************************************)
\* Callbacks that may wait for one animation frame.
MaxRaf == 2
\* Hits of the largest collection given to the component.
MaxHits == 3
\* Timeouts of DropZone that may wait to clear the error of a drop.
MaxErrorTimers == 2

\* Redirects between the pages of one job the model counts.
MaxRedirects == 3

\* Runs of loadOSMD one SheetMusicViewerInner starts: its mount and its
\* changes of jobId.
MaxLoads == 2

\* Hit.time is a number of seconds; the model counts it in 1/TimeRes s.
TimeRes == 100

\* Hit.velocity is a number of [0, 1]; the model counts it in 1/VelRes.
VelRes == 100

Max(a, b) == IF a >= b THEN a ELSE b
Min(a, b) == IF a <= b THEN a ELSE b

(***************************************************************************)
(* Inputs.                                                                 *)
(***************************************************************************)
Hit(t, inst, v) == [time |-> t, instrument |-> inst, velocity |-> v]

\* Hits in time order, as the transcription delivers them.  Times are chosen
\* on, just inside and just outside the edges of the windows of the
\* viewports below (2.5 s, 8.75 s, 15 s), one instrument is not a row.
HitPool ==
  << Hit(0, "kick", 100), Hit(249, "snare", 50), Hit(250, "hihat_closed", 0),
     Hit(600, "cowbell", 100), Hit(875, "crash", 50), Hit(876, "ride", 100),
     Hit(1500, "tom_low", 50), Hit(4000, "kick", 0) >>

\* The members of HitPool at the indices of S, in order.
Pick(S) ==
  LET n == Cardinality(S)
      f == CHOOSE g \in [1..n -> S] : \A i, j \in 1..n : i < j => g[i] < g[j]
  IN [i \in 1..n |-> HitPool[f[i]]]

\* Every collection of at most MaxHits hits of the pool.
AllCollections ==
  { Pick(S) : S \in { T \in SUBSET (1..Len(HitPool)) : Cardinality(T) <= MaxHits } }

\* The props the controller model moves between: two collections of the same
\* length and the empty one above the minimap threshold, one at it.
HitsA == << HitPool[1], HitPool[5] >>
HitsB == << HitPool[3], HitPool[7] >>

Durations == { SHOW_MINIMAP_THRESHOLD, SHOW_MINIMAP_THRESHOLD + 1 }
ScrollLefts == { 0, 500 }
ClientWidths == { 600, 800 }

\* window.devicePixelRatio of an ordinary and of a high-density display.
PixelRatios == { 1, 2 }

\* What getContext("2d") gives for the primary canvas, the minimap canvas
\* and the offscreen canvas of the cache: a context (TRUE) or null.
AllContexts == [canvas |-> TRUE, minimap |-> TRUE, offscreen |-> TRUE]
Contexts ==
  { AllContexts,
    [AllContexts EXCEPT !.canvas = FALSE],
    [AllContexts EXCEPT !.minimap = FALSE],
    [AllContexts EXCEPT !.offscreen = FALSE],
    [canvas |-> FALSE, minimap |-> FALSE, offscreen |-> FALSE] }

(***************************************************************************)
(* State.                                                                  *)
(***************************************************************************)
VARIABLES
  hits,                 \* props.hits of the current render
  durationSeconds,      \* props.durationSeconds of the current render
  scrollLeft,           \* scrollRef.current.scrollLeft
  clientWidth,          \* scrollRef.current.clientWidth
  rafQueue,             \* callbacks given to requestAnimationFrame, not yet run
  resizePending,        \* the ResizeObserver has a notification to deliver
  canvas,               \* what the primary canvas shows
  minimap,              \* what the minimap canvas shows
  minimapHitCache,      \* minimapHitCacheRef.current
  minimapCacheDirty,    \* minimapCacheDirtyRef.current
  buildsSinceDirty,     \* bitmaps built since the cache was last marked dirty
  compositesSinceDirty, \* minimap composites since then (2 = two or more)
  pendResizeDraws,      \* draws by resize notifications while a callback waits
  ev,                   \* what the last step did
  mounted,              \* the component is mounted: canvasRef, scrollRef hold
  context2d,            \* what getContext("2d") gives, per canvas
  devicePixelRatio,     \* window.devicePixelRatio
  isDark,               \* document.documentElement has the class "dark"
  query,                \* the query of useJobPolling: state and refetch timer
  page,                 \* ProcessingPage: job?.status, isStale, the stale timer
  dropZone,             \* DropZone: its state and the file of its parent
  uploadState,          \* useUploadProgress: state, xhrRef, the promise
  nav,                  \* the route shown for a job, and the result fetched
  viewer                \* SheetMusicViewerInner: its effect and its observer

\* The browser around the component.
envVars == << context2d, devicePixelRatio, isDark >>

\* HitTimeline and what it draws on.
timelineVars ==
  << hits, durationSeconds, scrollLeft, clientWidth, rafQueue, resizePending,
     canvas, minimap, minimapHitCache, minimapCacheDirty, buildsSinceDirty,
     compositesSinceDirty, pendResizeDraws, ev, mounted, envVars >>

\* The processing page and its polling.
jobVars == << query, page >>

\* The other components: the upload form, the routes of a job, the viewer
\* of the sheet music.
uiVars == << dropZone, uploadState, nav, viewer >>

vars == << timelineVars, jobVars, uiVars >>

\* A ref that holds null, a canvas never painted, a canvas not rendered.
NoCanvas == [kind |-> "null"]
Blank == [kind |-> "blank"]
NoSurface == [kind |-> "none"]

totalWidth(d) == HEADER_WIDTH + d * PIXELS_PER_SECOND
totalHeight == Len(INSTRUMENT_ORDER) * ROW_HEIGHT + 20
\* showMinimap with the threshold included.
showMinimapFrom(d) == d >= SHOW_MINIMAP_THRESHOLD
showMinimap(d) == d > SHOW_MINIMAP_THRESHOLD

\* The values a render closes over.
Closure(h, d) == [hits |-> h, durationSeconds |-> d]

SomeProps ==
  { Closure(HitsA, SHOW_MINIMAP_THRESHOLD + 1), Closure(HitsB, SHOW_MINIMAP_THRESHOLD + 1),
    Closure(<< >>, SHOW_MINIMAP_THRESHOLD + 1), Closure(HitsA, SHOW_MINIMAP_THRESHOLD) }

(***************************************************************************)
(* draw, getMinimapHitCache and drawMinimap.  They work on dom, the refs   *)
(* and surfaces of the component together with counts of what the handler  *)
(* that called them has done so far, and return the dom they leave.        *)
(***************************************************************************)
Dom ==
  [ canvas |-> canvas, minimap |-> minimap,
    minimapHitCache |-> minimapHitCache, minimapCacheDirty |-> minimapCacheDirty,
    buildsSinceDirty |-> buildsSinceDirty,
    compositesSinceDirty |-> compositesSinceDirty,
    mounted |-> mounted, context2d |-> context2d,
    devicePixelRatio |-> devicePixelRatio, isDark |-> isDark,
    ret |-> NoCanvas,   \* what getMinimapHitCache returned last
    drawCalls |-> 0,    \* calls of draw
    draws |-> 0,        \* of them, that painted
    calls |-> 0,        \* calls of drawMinimap
    active |-> 0,       \* of them, by a render that shows the minimap
    composites |-> 0,   \* of them, that painted the minimap canvas
    builds |-> 0 ]      \* bitmaps built

\* x of a hit, times TimeRes.
hitX(hit) == HEADER_WIDTH * TimeRes + hit.time * PIXELS_PER_SECOND

\* insideWindow with the edges of the window left out.
insideWindowOpen(hit, vpLeft, vpWidth) ==
  LET renderLeft == Max(0, vpLeft - bufferPx)
      renderRight == vpLeft + vpWidth + bufferPx
      timeLeft == Max(0, (renderLeft - HEADER_WIDTH) * TimeRes)
      timeRight == (renderRight - HEADER_WIDTH) * TimeRes
      t == hit.time * PIXELS_PER_SECOND
  IN ~(t <= timeLeft \/ t >= timeRight)

\* The test of line 169: the hit is not skipped for its time.  timeLeft
\* and timeRight are times PIXELS_PER_SECOND * TimeRes.
insideWindow(hit, vpLeft, vpWidth) ==
  LET vpRight == vpLeft + vpWidth
      renderLeft == Max(0, vpLeft - bufferPx)
      renderRight == vpRight + bufferPx
      timeLeft == Max(0, (renderLeft - HEADER_WIDTH) * TimeRes)
      timeRight == (renderRight - HEADER_WIDTH) * TimeRes
      t == hit.time * PIXELS_PER_SECOND
  IN ~(t < timeLeft \/ t > timeRight)

\* dotRadius with the two ends exchanged.
dotRadiusInverted(velocity) ==
  DOT_MAX_RADIUS * VelRes - (DOT_MAX_RADIUS - DOT_MIN_RADIUS) * velocity

\* radius of line 174, times VelRes.
dotRadius(velocity) ==
  DOT_MIN_RADIUS * VelRes + (DOT_MAX_RADIUS - DOT_MIN_RADIUS) * velocity

\* alpha of line 175, 0.4 + velocity * 0.6, times 10 * VelRes.
dotAlpha(velocity) == 4 * VelRes + velocity * 6

\* One marker of draw: the circle of lines 183-189 for hit i of h.
Marker(h, i, rowIndex) ==
  [ hit |-> i, x |-> hitX(h[i]),
    y |-> rowIndex * ROW_HEIGHT + ROW_HEIGHT \div 2 + 10,
    radius |-> dotRadius(h[i].velocity),
    alpha |-> dotAlpha(h[i].velocity) ]

\* paintHits that ends at the first hit whose instrument is no row.
RECURSIVE paintHitsUntilUnknown(_, _, _, _)
paintHitsUntilUnknown(h, i, vpLeft, vpWidth) ==
  IF i > Len(h) THEN << >>
  ELSE LET rowIndex == INSTRUMENT_INDEX_MAP(h[i].instrument)
           rest == paintHitsUntilUnknown(h, i + 1, vpLeft, vpWidth)
       IN IF ~insideWindow(h[i], vpLeft, vpWidth) THEN rest
          ELSE IF rowIndex = Undefined THEN << >>
          ELSE << Marker(h, i, rowIndex) >> \o rest

\* paintHits without the test of the window.
RECURSIVE paintHitsAll(_, _, _, _)
paintHitsAll(h, i, vpLeft, vpWidth) ==
  IF i > Len(h) THEN << >>
  ELSE LET rowIndex == INSTRUMENT_INDEX_MAP(h[i].instrument)
           rest == paintHitsAll(h, i + 1, vpLeft, vpWidth)
       IN IF rowIndex = Undefined THEN rest
          ELSE << Marker(h, i, rowIndex) >> \o rest

\* hits.forEach of draw, from hit i on: the markers painted, in order.
RECURSIVE paintHits(_, _, _, _)
paintHits(h, i, vpLeft, vpWidth) ==
  IF i > Len(h) THEN << >>
  ELSE LET hit == h[i]
           rowIndex == INSTRUMENT_INDEX_MAP(hit.instrument)
           rest == paintHits(h, i + 1, vpLeft, vpWidth)
       IN IF ~insideWindow(hit, vpLeft, vpWidth) THEN rest
          ELSE IF rowIndex = Undefined THEN rest
          ELSE << Marker(h, i, rowIndex) >> \o rest

\* interval of lines 145-146.
tickInterval(d) == IF d > 120 THEN 10 ELSE IF d > 30 THEN 5 ELSE 1

\* paintTicks with the window of the hits, without the margin of 50.
paintTicksNoMargin(d, vpLeft, vpWidth) ==
  LET renderLeft == Max(0, vpLeft - bufferPx)
      renderRight == vpLeft + vpWidth + bufferPx
  IN { t \in 0..d :
         /\ t % tickInterval(d) = 0
         /\ LET x == HEADER_WIDTH + t * PIXELS_PER_SECOND
            IN ~(x < renderLeft \/ x > renderRight) }

\* The loop of lines 147-162: the seconds whose tick is painted.
paintTicks(d, vpLeft, vpWidth) ==
  LET vpRight == vpLeft + vpWidth
      renderLeft == Max(0, vpLeft - bufferPx)
      renderRight == vpRight + bufferPx
  IN { t \in 0..d :
         /\ t % tickInterval(d) = 0
         /\ LET x == HEADER_WIDTH + t * PIXELS_PER_SECOND
            IN ~(x < renderLeft - 50 \/ x > renderRight + 50) }

\* getContext that gives a context whatever the browser says.
getContextAlways(dom, which) == TRUE

\* canvas.getContext("2d") is not null.
getContext(dom, which) == dom.context2d[which]

\* An assignment of canvas.width that leaves the context and the bitmap of
\* a canvas that has them as they are.
resetSurfaceKeepsContext(surface, w, h) ==
  [ backingWidth |-> w, backingHeight |-> h,
    transform |-> IF surface.kind = "painted" THEN surface.transform ELSE 1,
    indicators |-> IF surface.kind = "painted" THEN surface.indicators ELSE 0 ]

\* canvas.width = w; canvas.height = h: the bitmap is cleared and the state
\* of the context reset, so the transform is the identity again.
resetSurface(surface, w, h) ==
  [ backingWidth |-> w, backingHeight |-> h, transform |-> 1, indicators |-> 0 ]

\* ctx.scale(dpr, dpr)
scale(surface, dpr) == [ surface EXCEPT !.transform = @ * dpr ]

\* draw() of the render c, with the scroll container at vp.
draw(dom, c, vp) ==
  LET called == [ dom EXCEPT !.drawCalls = @ + 1 ]
  IN IF ~dom.mounted THEN called
     ELSE IF ~getContext(dom, "canvas") THEN called
     ELSE LET dpr == dom.devicePixelRatio
              sized == resetSurface(dom.canvas, totalWidth(c.durationSeconds) * dpr,
                                    totalHeight * dpr)
              ctx == scale(sized, dpr)
          IN [ called EXCEPT
                 !.canvas =
                   [ kind |-> "painted",
                     width |-> totalWidth(c.durationSeconds), height |-> totalHeight,
                     backingWidth |-> ctx.backingWidth,
                     backingHeight |-> ctx.backingHeight,
                     transform |-> ctx.transform, indicators |-> ctx.indicators,
                     isDark |-> dom.isDark,
                     hits |-> c.hits, durationSeconds |-> c.durationSeconds,
                     scrollLeft |-> vp.scrollLeft, clientWidth |-> vp.clientWidth,
                     ticks |-> paintTicks(c.durationSeconds, vp.scrollLeft,
                                          vp.clientWidth),
                     markers |-> paintHits(c.hits, 1, vp.scrollLeft, vp.clientWidth) ],
                 !.draws = @ + 1 ]

\* hits.forEach of getMinimapHitCache: the indices of the hits marked.
minimapMarks(h) ==
  { i \in 1..Len(h) : INSTRUMENT_INDEX_MAP(h[i].instrument) # Undefined }

\* getMinimapHitCache that builds and leaves the cache marked dirty.
getMinimapHitCacheLeftDirty(dom, c, minimapWidth) ==
  IF ~dom.minimapCacheDirty /\ dom.minimapHitCache # NoCanvas
  THEN [ dom EXCEPT !.ret = dom.minimapHitCache ]
  ELSE IF ~getContext(dom, "offscreen") THEN [ dom EXCEPT !.ret = NoCanvas ]
  ELSE LET offscreen ==
             [ kind |-> "bitmap", width |-> minimapWidth,
               backingWidth |-> minimapWidth * dom.devicePixelRatio,
               isDark |-> dom.isDark,
               totalWidth |-> totalWidth(c.durationSeconds),
               hits |-> c.hits, marks |-> minimapMarks(c.hits) ]
       IN [ dom EXCEPT
              !.minimapHitCache = offscreen,
              !.ret = offscreen,
              !.builds = @ + 1,
              !.buildsSinceDirty = Min(@ + 1, 2) ]

getMinimapHitCache(dom, c, minimapWidth) ==
  IF ~dom.minimapCacheDirty /\ dom.minimapHitCache # NoCanvas
  THEN [ dom EXCEPT !.ret = dom.minimapHitCache ]
  ELSE IF ~getContext(dom, "offscreen") THEN [ dom EXCEPT !.ret = NoCanvas ]
  ELSE LET offscreen ==
             [ kind |-> "bitmap", width |-> minimapWidth,
               backingWidth |-> minimapWidth * dom.devicePixelRatio,
               isDark |-> dom.isDark,
               totalWidth |-> totalWidth(c.durationSeconds),
               hits |-> c.hits, marks |-> minimapMarks(c.hits) ]
       IN [ dom EXCEPT
              !.minimapHitCache = offscreen,
              !.minimapCacheDirty = FALSE,
              !.ret = offscreen,
              !.builds = @ + 1,
              !.buildsSinceDirty = Min(@ + 1, 2) ]

\* drawMinimap() of the render c.  minimapCanvasRef.current is null exactly
\* when the minimap canvas is not rendered.
drawMinimap(dom, c, vp) ==
  LET called ==
        [ dom EXCEPT !.calls = @ + 1,
                     !.active = IF showMinimap(c.durationSeconds) THEN @ + 1 ELSE @ ]
  IN IF ~dom.mounted \/ dom.minimap = NoSurface \/ ~showMinimap(c.durationSeconds)
     THEN called
     ELSE IF ~getContext(dom, "minimap") THEN called
     ELSE LET minimapWidth == vp.clientWidth
              dpr == dom.devicePixelRatio
              sized == resetSurface(dom.minimap, minimapWidth * dpr,
                                    MINIMAP_HEIGHT * dpr)
              ctx == scale(sized, dpr)
              got == getMinimapHitCache(called, c, minimapWidth)
              tw == totalWidth(c.durationSeconds)
          IN [ got EXCEPT
                 !.minimap =
                   [ kind |-> "painted", width |-> minimapWidth,
                     backingWidth |-> ctx.backingWidth,
                     backingHeight |-> ctx.backingHeight,
                     transform |-> ctx.transform,
                     bitmap |-> got.ret,
                     indicators |->
                       (IF got.ret = NoCanvas THEN ctx.indicators ELSE 0) + 1,
                     isDark |-> dom.isDark,
                     vpX |-> [n |-> vp.scrollLeft * minimapWidth, d |-> tw],
                     vpW |-> [n |-> vp.clientWidth * minimapWidth, d |-> tw] ],
                 !.composites = @ + 1,
                 !.compositesSinceDirty = Min(@ + 1, 2) ]

\* minimapCacheDirtyRef.current = true
markDirty(dom) ==
  [ dom EXCEPT !.minimapCacheDirty = TRUE, !.buildsSinceDirty = 0,
               !.compositesSinceDirty = 0 ]

\* The callback handleScroll gives to requestAnimationFrame.
frameCallback(dom, c, vp) == drawMinimap(draw(dom, c, vp), c, vp)

\* The callbacks of one animation frame, in the order they were registered.
RECURSIVE runCallbacks(_, _, _)
runCallbacks(dom, queue, vp) ==
  IF queue = << >> THEN dom
  ELSE runCallbacks(frameCallback(dom, Head(queue), vp), Tail(queue), vp)

\* A callback of the ResizeObserver without its first line.
resizeCallbackKeepsCache(dom, c, vp) == drawMinimap(draw(dom, c, vp), c, vp)

\* The callback of the ResizeObserver made by the render c (lines 300-304).
resizeCallback(dom, c, vp) == drawMinimap(draw(markDirty(dom), c, vp), c, vp)

\* The draw effect without its first line.
drawEffectKeepsCache(dom, c, vp) == drawMinimap(draw(dom, c, vp), c, vp)

\* The body of the effect of lines 295-305, run for the render c.
drawEffect(dom, c, vp) == drawMinimap(draw(markDirty(dom), c, vp), c, vp)

\* The effect of lines 81-83: it runs when hits.length has changed.
hitsKeyEffect(dom, oldLen, newLen) ==
  IF oldLen # newLen THEN markDirty(dom) ELSE dom

\* A cleanup of the draw effect that leaves the observer observing.
effectCleanupLeavesObserver(pending) == pending

\* The cleanup of the draw effect (line 306), observer.disconnect(): no
\* notification of the observer is delivered any more.
effectCleanup(pending) == FALSE

\* handleScroll: one more callback waits for the frame.
handleScroll(queue, c) == Append(queue, c)

(***************************************************************************)
(* handleMinimapClick.                                                     *)
(***************************************************************************)
RECURSIVE Gcd(_, _)
Gcd(a, b) == IF b = 0 THEN a ELSE Gcd(b, a % b)
Abs(a) == IF a < 0 THEN -a ELSE a
\* The quotient n / d (d > 0) in lowest terms.
Rat(n, d) == LET g == Gcd(Abs(n), d) IN [n |-> n \div g, d |-> d \div g]
RatMul(r, k) == Rat(r.n * k, r.d)
RatSub(a, b) == Rat(a.n * b.d - b.n * a.d, a.d * b.d)
\* Math.max(0, r), for a quotient of positive denominator.
RatMax0(r) == IF r.n < 0 THEN [n |-> 0, d |-> 1] ELSE r
RatEq(r, k) == r.n = k * r.d

\* clickTarget without Math.max.
clickTargetUnclamped(clickX, rectWidth, tw, cw) ==
  RatSub(RatMul(Rat(clickX, rectWidth), tw), [n |-> cw, d |-> 2])

\* The left of the scrollTo of a click at clickX on a minimap rectWidth wide.
clickTarget(clickX, rectWidth, tw, cw) ==
  LET ratio == Rat(clickX, rectWidth)
      targetScroll == RatSub(RatMul(ratio, tw), [n |-> cw, d |-> 2])
  IN RatMax0(targetScroll)

(***************************************************************************)
(* useJobPolling (hooks/use-job-polling.ts), fetchJobStatus                *)
(* (lib/api-client-browser.ts) and the stale-job timer of ProcessingPage   *)
(* (app/processing/[id]/page.tsx).  A JavaScript value that need not be a  *)
(* number is a record with its kind.                                       *)
(***************************************************************************)
DEFAULT_POLL_MS == 2000
STALE_JOB_TIMEOUT_MS == 15 * 60 * 1000

\* The clock of the model ticks once in TickMs milliseconds.
TickMs == 5 * 60 * 1000

\* JobStatus, in the order the backend goes through.
JobStatuses ==
  << "queued", "processing", "separating_drums", "predicting", "transcribing",
     "completed", "failed" >>
\* job?.status of a job that is undefined.
NoStatus == "undefined"
Rank(status) ==
  IF status = NoStatus THEN 0
  ELSE CHOOSE i \in 1..Len(JobStatuses) : JobStatuses[i] = status

\* status === "completed" || status === "failed"
Terminal(status) == status = "completed" \/ status = "failed"

Num(n) == [kind |-> "number", n |-> n]
NaN == [kind |-> "NaN"]
False == [kind |-> "false"]
NoValue == [kind |-> "undefined"]
\* a * k of two JavaScript numbers, k a number
Times(a, k) == IF a.kind = "number" THEN Num(a.n * k) ELSE NaN
\* a ?? b
Nullish(a, b) == IF a = NoValue THEN b ELSE a

\* query.state.error of a query without error, and an ApiError.
NoError == [kind |-> "null"]
ApiError(status, retryAfter) ==
  [kind |-> "ApiError", status |-> status, retryAfter |-> retryAfter]
\* err?.status
ErrStatus(err) == IF err = NoError THEN Undefined ELSE err.status

\* res.headers.get("Retry-After"): null, or the text of the header, one
\* character per element.
NoHeader == [present |-> FALSE]
Header(text) == [present |-> TRUE, text |-> text]
RetryAfterHeaders ==
  { NoHeader, Header(<< "0" >>), Header(<< "5" >>), Header(<< "1", "2" >>),
    Header(<< "W", "e", "d" >>) }
\* The header as a condition: null and the empty string are falsy.
Truthy(header) == header.present /\ header.text # << >>

DigitChars == << "0", "1", "2", "3", "4", "5", "6", "7", "8", "9" >>
IsDigit(ch) == \E d \in 1..Len(DigitChars) : DigitChars[d] = ch
DigitOf(ch) == (CHOOSE d \in 1..Len(DigitChars) : DigitChars[d] = ch) - 1

RECURSIVE skipSpace(_, _)
skipSpace(text, i) ==
  IF i <= Len(text) /\ text[i] = " " THEN skipSpace(text, i + 1) ELSE i

\* The digits of text from i on: their value after acc, and whether there
\* was one.
RECURSIVE parseDigits(_, _, _, _)
parseDigits(text, i, acc, any) ==
  IF i > Len(text) \/ ~IsDigit(text[i]) THEN [n |-> acc, any |-> any]
  ELSE parseDigits(text, i + 1, acc * 10 + DigitOf(text[i]), TRUE)

\* parseInt(text, 10): white space, a sign, then digits as far as they go;
\* NaN when there is none.
parseInt(text) ==
  LET i == skipSpace(text, 1)
      signed == i <= Len(text) /\ text[i] \in {"+", "-"}
      sign == IF signed /\ text[i] = "-" THEN -1 ELSE 1
      got == parseDigits(text, IF signed THEN i + 1 ELSE i, 0, FALSE)
  IN IF got.any THEN Num(sign * got.n) ELSE NaN

\* What a request for the status of the job can meet: no answer in time, no
\* connection, 429 with or without Retry-After, another error status, the job.
Responses(data) ==
  { [kind |-> "timeout"], [kind |-> "network"], [kind |-> "http", status |-> 500] }
    \cup { [kind |-> "http", status |-> 429, retryAfter |-> h] : h \in RetryAfterHeaders }
    \cup { [kind |-> "http", status |-> 200, job |-> JobStatuses[i]] :
             i \in { j \in 1..Len(JobStatuses) : j >= Rank(data) } }

\* fetchJobStatus: the job it returns or the ApiError it throws.
fetchJobStatus(res) ==
  IF res.kind = "timeout" THEN [ok |-> FALSE, error |-> ApiError(408, NoValue)]
  ELSE IF res.kind = "network" THEN [ok |-> FALSE, error |-> ApiError(0, NoValue)]
  ELSE IF res.status = 429
  THEN [ ok |-> FALSE,
         error |-> ApiError(429, IF Truthy(res.retryAfter)
                                 THEN parseInt(res.retryAfter.text) ELSE Num(10)) ]
  ELSE IF res.status # 200 THEN [ok |-> FALSE, error |-> ApiError(res.status, NoValue)]
  ELSE [ok |-> TRUE, data |-> res.job]

\* refetchInterval that goes on after a terminal status.
refetchIntervalNoStop(q) ==
  IF ErrStatus(q.error) = 429 THEN Times(Nullish(q.error.retryAfter, Num(10)), 1000)
  ELSE Num(DEFAULT_POLL_MS)

\* The option refetchInterval of useJobPolling (lines 14-22).
refetchInterval(q) ==
  IF Terminal(q.data) THEN False
  ELSE IF ErrStatus(q.error) = 429
  THEN Times(Nullish(q.error.retryAfter, Num(10)), 1000)
  ELSE Num(DEFAULT_POLL_MS)

\* The option retry of useJobPolling (lines 23-27).
retry(failureCount, error) ==
  IF ErrStatus(error) = 429 THEN FALSE ELSE failureCount < 3

\* TanStack Query, when a fetch has settled: the observer asks
\* refetchInterval and starts a timer when the answer is a number that is
\* finite, not negative and not 0.
updateRefetchInterval(q) ==
  LET next == refetchInterval(q)
      valid == next.kind = "number" /\ next.n >= 0
  IN [ q EXCEPT !.interval = next,
                !.phase = IF valid /\ next.n # 0 THEN "waiting" ELSE "idle" ]

NoQuery ==
  [ phase |-> "none",         \* "fetching", "waiting" for the timer, "idle"
    data |-> NoStatus,        \* query.state.data?.status
    error |-> NoError,        \* query.state.error
    failureCount |-> 0,       \* failures of the fetch that runs
    interval |-> False,       \* what refetchInterval answered last
    polled |-> FALSE,         \* the timer has started a fetch
    last |-> [op |-> "none"] ]\* the last step, with the response it met

NoTimer == -1

\* STATUS_STEP_ORDER of constants.ts (lines 37-43).
STATUS_STEP_ORDER ==
  << "queued", "separating_drums", "predicting", "transcribing", "completed" >>

\* Array.prototype.indexOf: the first index, from 0, or -1.
indexOf(array, x) ==
  IF \E i \in 1..Len(array) : array[i] = x
  THEN (CHOOSE i \in 1..Len(array) :
          array[i] = x /\ \A j \in 1..(i - 1) : array[j] # x) - 1
  ELSE -1

\* What ProgressStepper renders for currentStatus: the attributes of the
\* progressbar and, of the steps (by index from 0), the ones rendered as
\* current, as completed and with aria-current.
ProgressStepper(currentStatus) ==
  LET currentIndex == indexOf(STATUS_STEP_ORDER, currentStatus)
      isFailed == currentStatus = "failed"
      indices == 0..(Len(STATUS_STEP_ORDER) - 1)
      isActive(index) == STATUS_STEP_ORDER[index + 1] = currentStatus
  IN [ valuenow |-> currentIndex + 1,
       valuemin |-> 1,
       valuemax |-> Len(STATUS_STEP_ORDER),
       ariaCurrent |-> { index \in indices : isActive(index) },
       completed |-> { index \in indices : currentIndex > index },
       current |-> { index \in indices : isActive(index) /\ ~isFailed } ]

NoPage ==
  [ status |-> NoStatus,      \* job?.status of the last render
    isStale |-> FALSE,
    staleTimer |-> NoTimer,   \* ticks until the timeout of staleTimerRef fires
    nonTerminalFor |-> 0 ]    \* ticks the status has been non-terminal for

\* The body of the effect of lines 33-43, for the status of the render.
staleEffect(pg, status) ==
  IF status # NoStatus /\ status # "completed" /\ status # "failed"
  THEN [ pg EXCEPT !.staleTimer = STALE_JOB_TIMEOUT_MS \div TickMs ]
  ELSE [ pg EXCEPT !.isStale = FALSE ]

\* Its cleanup: clearTimeout(staleTimerRef.current).
staleCleanup(pg) == [ pg EXCEPT !.staleTimer = NoTimer ]

\* ProcessingPage renders with job?.status = status: the effect runs again
\* when the status is another one.
pageRender(pg, status) ==
  IF status = pg.status THEN pg
  ELSE [ staleEffect(staleCleanup(pg), status) EXCEPT
           !.status = status,
           !.nonTerminalFor =
             IF pg.status # NoStatus /\ ~Terminal(pg.status) /\ ~Terminal(status)
             THEN @ ELSE 0 ]

\* The condition of the stale-job alert (line 112).
staleAlert(pg) == pg.isStale /\ pg.status # "failed" /\ pg.status # "completed"

(***************************************************************************)
(* DropZone (components/upload/drop-zone.tsx).  A text is a sequence of     *)
(* characters.                                                             *)
(***************************************************************************)
MAX_FILE_SIZE_MB == 50
MAX_FILE_SIZE_BYTES == MAX_FILE_SIZE_MB * 1024 * 1024

ACCEPTED_AUDIO_TYPES ==
  { "audio/wav", "audio/mpeg", "audio/flac", "audio/ogg", "audio/x-wav", "audio/mp3" }
ACCEPTED_AUDIO_EXTENSIONS ==
  { << ".", "w", "a", "v" >>, << ".", "m", "p", "3" >>,
    << ".", "f", "l", "a", "c" >>, << ".", "o", "g", "g" >> }

UpperChars ==
  << "A", "B", "C", "D", "E", "F", "G", "H", "I", "J", "K", "L", "M",
     "N", "O", "P", "Q", "R", "S", "T", "U", "V", "W", "X", "Y", "Z" >>
LowerChars ==
  << "a", "b", "c", "d", "e", "f", "g", "h", "i", "j", "k", "l", "m",
     "n", "o", "p", "q", "r", "s", "t", "u", "v", "w", "x", "y", "z" >>
\* text.toLowerCase()
toLowerCase(text) ==
  [ k \in 1..Len(text) |->
      IF \E u \in 1..Len(UpperChars) : UpperChars[u] = text[k]
      THEN LowerChars[CHOOSE u \in 1..Len(UpperChars) : UpperChars[u] = text[k]]
      ELSE text[k] ]

\* text.split(".").pop(): what follows the last "." of text, all of text
\* when it has none.
lastSegment(text) ==
  LET dots == { k \in 1..Len(text) : text[k] = "." }
      from == IF dots = {} THEN 1
              ELSE (CHOOSE k \in dots : \A j \in dots : j <= k) + 1
  IN SubSeq(text, from, Len(text))

File(name, type, size) == [name |-> name, type |-> type, size |-> size]
NoFile == [name |-> << >>, type |-> "null", size |-> 0]

\* Files a user may drop or pick: names with an accepted extension in either
\* case, with another one, with none; types the browser reports; sizes at
\* and above the limit.
FileNames ==
  { << "a", ".", "w", "a", "v" >>, << "a", ".", "M", "P", "3" >>,
    << "a", ".", "t", "x", "t" >>, << "o", "g", "g" >> }
FileTypes == { "audio/mpeg", "text/plain", "" }
FileSizes == { MAX_FILE_SIZE_BYTES, MAX_FILE_SIZE_BYTES + 1 }
Files == { File(n, t, z) : n \in FileNames, t \in FileTypes, z \in FileSizes }

\* validateFile (lines 26-38): the error, or null.
validateFile(f) ==
  LET ext == << "." >> \o toLowerCase(lastSegment(f.name))
  IN IF f.type \notin ACCEPTED_AUDIO_TYPES /\ ext \notin ACCEPTED_AUDIO_EXTENSIONS
     THEN "Invalid file type."
     ELSE IF f.size > MAX_FILE_SIZE_BYTES THEN "File too large."
     ELSE "null"

\* DropZone in the upload form, no file chosen.  The parent keeps the file
\* it was given by onFileSelect and renders DropZone with it.
EmptyDropZone ==
  [ phase |-> "rendered",
    file |-> NoFile,          \* props.file
    isDragOver |-> FALSE,
    dropError |-> "null",
    errorTimers |-> 0,        \* timeouts that will clear dropError
    last |-> [op |-> "mount"] ]\* the last event, with what onFileSelect got

\* handleDrop (lines 40-57), for the file dropped; NoFile when the drop
\* brought none.  onFileSelect is setFile of the form.
handleDrop(dz, f) ==
  LET err == validateFile(f)
      cleared == [ dz EXCEPT !.isDragOver = FALSE, !.dropError = "null" ]
  IN IF f = NoFile
     THEN [ cleared EXCEPT !.last = [op |-> "drop", called |-> FALSE] ]
     ELSE IF err # "null"
     THEN [ cleared EXCEPT !.dropError = err, !.errorTimers = @ + 1,
                           !.last = [op |-> "drop", called |-> FALSE] ]
     ELSE [ cleared EXCEPT !.file = f,
                           !.last = [op |-> "drop", called |-> TRUE, passed |-> f] ]

\* handleFileInput (lines 59-67), for the file picked.
handleFileInput(dz, f) ==
  [ dz EXCEPT !.file = f,
              !.last = [op |-> "pick", called |-> TRUE, passed |-> f] ]

(***************************************************************************)
(* useUploadProgress (hooks/use-upload-progress.ts).                       *)
(***************************************************************************)
LARGE_FILE_THRESHOLD == 5 * 1024 * 1024
isLargeFile(size) == size > LARGE_FILE_THRESHOLD

\* The hook of a form that has not uploaded.
IdleUpload ==
  [ phase |-> "rendered",
    progress |-> 0, isUploading |-> FALSE, error |-> "null",
    xhrRef |-> "null",        \* xhrRef.current: null or the request
    request |-> "none",       \* the request: "sent", "done", "aborted"
    promise |-> "none",       \* the promise returned last
    result |-> [kind |-> "none"], \* what it resolved with
    abandoned |-> FALSE ]     \* a promise of before is pending for ever

\* Math.round((e.loaded / e.total) * 100)
percent(loaded, total) == (200 * loaded + total) \div (2 * total)

\* What xhr.responseText may be: text that JSON.parse refuses, or the text of
\* a value.
ResponseTexts ==
  { [json |-> FALSE],
    [json |-> TRUE, value |-> [kind |-> "null"]],
    [json |-> TRUE, value |-> [kind |-> "object", id |-> "job-1", detail |-> "undefined"]],
    [json |-> TRUE, value |-> [kind |-> "object", id |-> "undefined", detail |-> "quota"]] }
UploadStatuses == { 200, 201, 400, 429, 500 }

\* upload(formData) up to xhr.send (lines 45-100).
upload(u) ==
  [ u EXCEPT !.progress = 0, !.isUploading = TRUE, !.error = "null",
             !.xhrRef = "xhr", !.request = "sent", !.promise = "pending",
             !.result = [kind |-> "none"],
             !.abandoned = @ \/ u.promise = "pending" ]

\* The listener of "progress" of xhr.upload (lines 51-56).
onProgress(u, e) ==
  IF e.lengthComputable THEN [ u EXCEPT !.progress = percent(e.loaded, e.total) ]
  ELSE u

\* The listener of "load" (lines 58-84): what the promise resolves with.
loadResult(status, text) ==
  IF status = 429 THEN [kind |-> "error", error |-> "too many active jobs"]
  ELSE IF status >= 200 /\ status < 300
  THEN IF text.json THEN text.value ELSE [kind |-> "error", error |-> "invalid response"]
  ELSE IF text.json /\ text.value.kind = "object"
       THEN [kind |-> "error", error |-> "failed to create job"] ELSE [kind |-> "error", error |-> "upload failed"]

onLoad(u, status, text) ==
  [ u EXCEPT !.xhrRef = "null", !.isUploading = FALSE, !.progress = 100,
             !.request = "done", !.promise = "resolved",
             !.result = loadResult(status, text) ]

\* The listeners of "error" and of "timeout" (lines 86-96).
onError(u) ==
  [ u EXCEPT !.xhrRef = "null", !.progress = 0, !.isUploading = FALSE,
             !.error = "Network error during upload.",
             !.request = "done", !.promise = "resolved",
             !.result = [kind |-> "error", error |-> "network error"] ]
onTimeout(u) ==
  [ u EXCEPT !.xhrRef = "null", !.progress = 0, !.isUploading = FALSE,
             !.error = "Upload timed out.",
             !.request = "done", !.promise = "resolved",
             !.result = [kind |-> "error", error |-> "timed out"] ]

\* abort() (lines 106-112).  xhr.abort() ends the request with the event
\* "abort", which has no listener.
abort(u) ==
  IF u.xhrRef # "null"
  THEN [ u EXCEPT !.request = "aborted", !.xhrRef = "null",
                  !.progress = 0, !.isUploading = FALSE, !.error = "null" ]
  ELSE u

(***************************************************************************)
(* The components that are not part of a specification are not rendered.   *)
(***************************************************************************)
NoDropZone == [phase |-> "none"]
NoUpload == [phase |-> "none"]
NoNav == [phase |-> "none"]
NoViewer == [phase |-> "none"]

\* SheetMusicViewerInner after its first render and its effect: loadOSMD of
\* jobId has begun and waits for fetch.
JobIds == { 1, 2 }

NoMessage == "null"

\* One run of loadOSMD: where it waits, and the cancelled of its closure.
loadOSMD(jobId) == [jobId |-> jobId, pc |-> "fetch", cancelled |-> FALSE]

MountedViewer(jobId) ==
  [ phase |-> "mounted",
    jobId |-> jobId,
    loads |-> << loadOSMD(jobId) >>,
    isLoading |-> TRUE,
    error |-> NoMessage,
    shown |-> 0,           \* the jobId of the score osmd rendered last
    observers |-> {},      \* the runs whose ResizeObserver observes
    last |-> [op |-> "mount"] ]

\* containerRef.current: the container is rendered while the component is
\* mounted and renders no error (lines 231-237).
containerRef(v) == v.phase = "mounted" /\ v.error = NoMessage

\* What a step of the run i did: osmd.render(), a setState.
LoadStep(v, i, op, rendered, setState) ==
  [ op |-> op, load |-> i, cancelled |-> v.loads[i].cancelled,
    rendered |-> rendered, setState |-> setState ]

\* The run i ends.
returned(v, i) == [ v EXCEPT !.loads[i].pc = "returned" ]

\* The catch of loadOSMD (lines 215-222) for the run i.
catch(v, i, op, message, rendered) ==
  IF ~v.loads[i].cancelled
  THEN [ returned(v, i) EXCEPT !.error = message, !.isLoading = FALSE,
                               !.last = LoadStep(v, i, op, rendered, TRUE) ]
  ELSE [ returned(v, i) EXCEPT !.last = LoadStep(v, i, op, rendered, FALSE) ]

\* await fetch(xmlUrl) settles (lines 188-189): a response that is ok, one
\* that is not, or a rejection.
fetchSettles(v, i, outcome) ==
  IF outcome = "ok"
  THEN [ v EXCEPT !.loads[i].pc = "text",
                  !.last = LoadStep(v, i, "fetch", FALSE, FALSE) ]
  ELSE IF outcome = "notOk"
  THEN catch(v, i, "fetch", "Failed to fetch MusicXML", FALSE)
  ELSE catch(v, i, "fetch", "Failed to fetch", FALSE)

\* await res.text() settles (line 190); the dynamic import begins.
textSettles(v, i) ==
  [ v EXCEPT !.loads[i].pc = "import",
             !.last = LoadStep(v, i, "text", FALSE, FALSE) ]

\* await import(...) settles (lines 192-201): the test of cancelled and of
\* the container, then new OpenSheetMusicDisplay and osmd.load.
importSettles(v, i) ==
  IF v.loads[i].cancelled \/ ~containerRef(v)
  THEN [ returned(v, i) EXCEPT !.last = LoadStep(v, i, "import", FALSE, FALSE) ]
  ELSE [ v EXCEPT !.loads[i].pc = "load",
                  !.last = LoadStep(v, i, "import", FALSE, FALSE) ]

\* await osmd.load(xmlString) settles (lines 201-214).  After a load that
\* succeeded: osmd.render(), setIsLoading(false), a new ResizeObserver and
\* observer.observe(containerRef.current), which throws a TypeError when
\* the ref holds null.
loadSettles(v, i, ok) ==
  IF ~ok THEN catch(v, i, "load", "Failed to load sheet music", FALSE)
  ELSE LET rendered == [ v EXCEPT !.shown = v.loads[i].jobId,
                                  !.isLoading = FALSE ]
       IN IF containerRef(v)
          THEN [ returned(rendered, i) EXCEPT
                   !.observers = @ \cup {i},
                   !.last = LoadStep(v, i, "load", TRUE, TRUE) ]
          ELSE catch(rendered, i, "load", "observe", TRUE)

\* The callback of the ResizeObserver of the run i (lines 205-211).
viewerResizeCallback(v, i) ==
  [ v EXCEPT !.shown = v.loads[i].jobId,
             !.last = LoadStep(v, i, "resize", TRUE, FALSE) ]

\* The cleanup of the effect (lines 226-228): cancelled = true, in the
\* closure of the run the effect started.
viewerCleanup(v) ==
  [ v EXCEPT !.loads = [ i \in DOMAIN @ |-> [ @[i] EXCEPT !.cancelled = TRUE ] ] ]

\* ResultPage (part_001 lines 37-56) for what getJob and getJobResult give:
\* where it redirects to, or "render".
ResultPage(job, result) ==
  IF ~job.ok THEN "/"
  ELSE IF job.status # "completed" THEN "/jobs/id"
  ELSE IF ~result.ok THEN "/jobs/id"
  ELSE "render"

\* The effect of ProcessingPage (part_003 lines 27-31) for job?.status:
\* where router.push goes, or "stay".
redirectEffect(status) ==
  IF status = "completed" THEN "/jobs/id/result" ELSE "stay"

\* The browser opens a page of the job: the path, what the page does next,
\* the status the job has on the backend and the status the query holds.
OpenNav(path, job) ==
  [ phase |-> "open",
    path |-> path,
    pc |-> IF path = "/jobs/id" THEN "mount" ELSE "request",
    job |-> job,
    data |-> NoStatus,
    redirects |-> 0,
    last |-> [op |-> "open", redirect |-> FALSE] ]

\* A redirect or a router.push to path.
goTo(n, path, op) ==
  [ n EXCEPT !.path = path,
             !.pc = IF path = "/" THEN "home"
                    ELSE IF path = "/jobs/id" THEN "mount" ELSE "request",
             !.redirects = Min(@ + 1, MaxRedirects),
             !.last = [op |-> op, redirect |-> TRUE] ]

NoUi ==
  /\ dropZone = NoDropZone
  /\ uploadState = NoUpload
  /\ nav = NoNav
  /\ viewer = NoViewer

(***************************************************************************)
(* Steps.                                                                  *)
(***************************************************************************)
vp == [scrollLeft |-> scrollLeft, clientWidth |-> clientWidth]

EvNone(op) ==
  [ op |-> op, drawCalls |-> 0, draws |-> 0, calls |-> 0, active |-> 0,
    composites |-> 0, builds |-> 0,
    touched |-> FALSE,   \* the step changed a surface, the cache or its flag
    registered |-> 0,    \* callbacks the step gave to requestAnimationFrame
    waiting |-> 0,       \* callbacks that were waiting when the step began
    resizeDraws |-> 0,   \* draws by resize notifications while they waited
    replaced |-> FALSE,  \* the step replaced hits
    sameLength |-> FALSE,\* and by hits of the same length
    wasValid |-> FALSE,  \* the cache was valid when the step began
    cachedWidth |-> 0,   \* the width of the bitmap cached when it began
    ratio |-> [n |-> 0, d |-> 1], target |-> [n |-> 0, d |-> 1] ]

EvOf(op, dom) ==
  [ EvNone(op) EXCEPT !.drawCalls = dom.drawCalls,
                      !.touched = \/ dom.canvas # canvas
                                  \/ dom.minimap # minimap
                                  \/ dom.minimapHitCache # minimapHitCache
                                  \/ dom.minimapCacheDirty # minimapCacheDirty,
                      !.draws = dom.draws, !.calls = dom.calls,
                      !.active = dom.active, !.composites = dom.composites,
                      !.builds = dom.builds, !.waiting = Len(rafQueue),
                      !.wasValid = ~minimapCacheDirty /\ minimapHitCache # NoCanvas,
                      !.cachedWidth = IF minimapHitCache = NoCanvas THEN 0
                                      ELSE minimapHitCache.width ]

\* The surfaces and refs after a handler.
Leave(dom) ==
  /\ canvas' = dom.canvas
  /\ minimap' = dom.minimap
  /\ minimapHitCache' = dom.minimapHitCache
  /\ minimapCacheDirty' = dom.minimapCacheDirty
  /\ buildsSinceDirty' = dom.buildsSinceDirty
  /\ compositesSinceDirty' = dom.compositesSinceDirty

Untouched ==
  UNCHANGED << canvas, minimap, minimapHitCache, minimapCacheDirty,
               buildsSinceDirty, compositesSinceDirty >>

\* The component after its first render and its effects, in a browser
\* that gives the contexts cx, has the pixel ratio dpr and the theme dark.
MountIn(h, d, w, cx, dpr, dark) ==
  LET fresh ==
        [ canvas |-> Blank,
          minimap |-> IF showMinimap(d) THEN Blank ELSE NoSurface,
          minimapHitCache |-> NoCanvas, minimapCacheDirty |-> TRUE,
          buildsSinceDirty |-> 0, compositesSinceDirty |-> 0,
          mounted |-> TRUE, context2d |-> cx,
          devicePixelRatio |-> dpr, isDark |-> dark,
          ret |-> NoCanvas, drawCalls |-> 0, draws |-> 0, calls |-> 0,
          active |-> 0, composites |-> 0, builds |-> 0 ]
      dom == drawEffect(markDirty(fresh), Closure(h, d),
                        [scrollLeft |-> 0, clientWidth |-> w])
  IN /\ hits = h
     /\ durationSeconds = d
     /\ scrollLeft = 0
     /\ clientWidth = w
     /\ rafQueue = << >>
     /\ resizePending = TRUE
     /\ canvas = dom.canvas
     /\ minimap = dom.minimap
     /\ minimapHitCache = dom.minimapHitCache
     /\ minimapCacheDirty = dom.minimapCacheDirty
     /\ buildsSinceDirty = dom.buildsSinceDirty
     /\ compositesSinceDirty = dom.compositesSinceDirty
     /\ pendResizeDraws = 0
     /\ ev = [ EvNone("mount") EXCEPT
                 !.drawCalls = dom.drawCalls,
                 !.touched = \/ dom.canvas # fresh.canvas
                             \/ dom.minimap # fresh.minimap
                             \/ dom.minimapHitCache # fresh.minimapHitCache
                             \/ dom.minimapCacheDirty # fresh.minimapCacheDirty,
                 !.draws = dom.draws, !.calls = dom.calls, !.active = dom.active,
                 !.composites = dom.composites, !.builds = dom.builds ]
     /\ mounted = TRUE
     /\ context2d = cx
     /\ devicePixelRatio = dpr
     /\ isDark = dark
     /\ query = NoQuery
     /\ page = NoPage
     /\ NoUi

\* The component mounted in a browser that gives every context, on an
\* ordinary display, in the light theme.
Mount(h, d, w) == MountIn(h, d, w, AllContexts, 1, FALSE)

\* A scroll event of the scroll container: onScroll = handleScroll.
Scroll(left) ==
  /\ mounted
  /\ left # scrollLeft
  /\ Len(rafQueue) < MaxRaf
  /\ scrollLeft' = left
  /\ rafQueue' = handleScroll(rafQueue, Closure(hits, durationSeconds))
  /\ ev' = [ EvNone("scroll") EXCEPT
               !.waiting = Len(rafQueue),
               !.registered = Len(rafQueue') - Len(rafQueue) ]
  /\ Untouched
  /\ UNCHANGED << hits, durationSeconds, clientWidth, resizePending, pendResizeDraws,
                  mounted, envVars, jobVars, uiVars >>

\* The browser runs the callbacks that wait for the frame.
AnimationFrame ==
  /\ rafQueue # << >>
  /\ LET dom == runCallbacks(Dom, rafQueue, vp)
     IN /\ Leave(dom)
        /\ ev' = [ EvOf("frame", dom) EXCEPT !.resizeDraws = pendResizeDraws ]
  /\ rafQueue' = << >>
  /\ pendResizeDraws' = 0
  /\ UNCHANGED << hits, durationSeconds, scrollLeft, clientWidth, resizePending,
                  mounted, envVars, jobVars, uiVars >>

\* The layout gives the container another width; the observer will tell.
ContainerResize(w) ==
  /\ mounted
  /\ w # clientWidth
  /\ clientWidth' = w
  /\ resizePending' = TRUE
  /\ ev' = EvNone("layout")
  /\ Untouched
  /\ UNCHANGED << hits, durationSeconds, scrollLeft, rafQueue, pendResizeDraws,
                  mounted, envVars, jobVars, uiVars >>

\* The ResizeObserver of the current effect delivers its notification.
ResizeNotify ==
  /\ resizePending
  /\ resizePending' = FALSE
  /\ LET dom == resizeCallback(Dom, Closure(hits, durationSeconds), vp)
     IN /\ Leave(dom)
        /\ ev' = EvOf("resize", dom)
        /\ pendResizeDraws' =
             IF rafQueue = << >> THEN 0 ELSE Min(pendResizeDraws + dom.draws, 2)
  /\ UNCHANGED << hits, durationSeconds, scrollLeft, clientWidth, rafQueue,
                  mounted, envVars, jobVars, uiVars >>

\* The parent renders HitTimeline with other props: React commits (the
\* minimap canvas is there exactly when showMinimap), then runs the effects
\* whose dependencies changed: the old observer is disconnected, the effect
\* of hitsKey and the draw effect run, the new observer observes.
SetProps(h, d) ==
  /\ mounted
  /\ Closure(h, d) # Closure(hits, durationSeconds)
  /\ hits' = h
  /\ durationSeconds' = d
  /\ LET committed ==
           [ Dom EXCEPT !.minimap = IF ~showMinimap(d) THEN NoSurface
                                    ELSE IF minimap = NoSurface THEN Blank
                                    ELSE minimap ]
         dom == drawEffect(hitsKeyEffect(committed, Len(hits), Len(h)),
                           Closure(h, d), vp)
     IN /\ Leave(dom)
        /\ ev' = [ EvOf("props", dom) EXCEPT
                     !.replaced = (h # hits),
                     !.sameLength = (h # hits /\ Len(h) = Len(hits)) ]
  /\ resizePending' = TRUE
  /\ UNCHANGED << scrollLeft, clientWidth, rafQueue, pendResizeDraws,
                  mounted, envVars, jobVars, uiVars >>

\* A click on the minimap canvas, clickX from the left of its rectWidth.
MinimapClick(clickX, rectWidth) ==
  /\ mounted
  /\ minimap # NoSurface
  /\ ev' = [ EvNone("click") EXCEPT
               !.ratio = Rat(clickX, rectWidth),
               !.target = clickTarget(clickX, rectWidth,
                                      totalWidth(durationSeconds), clientWidth) ]
  /\ Untouched
  /\ UNCHANGED << hits, durationSeconds, scrollLeft, clientWidth, rafQueue,
                  resizePending, pendResizeDraws, mounted, envVars, jobVars, uiVars >>

\* The theme is toggled: the class "dark" of the document element is set or
\* removed.  The component has no subscription to it.
ThemeToggle ==
  /\ isDark' = ~isDark
  /\ ev' = EvNone("theme")
  /\ Untouched
  /\ UNCHANGED << hits, durationSeconds, scrollLeft, clientWidth, rafQueue,
                  resizePending, pendResizeDraws, mounted, context2d,
                  devicePixelRatio, jobVars, uiVars >>

\* The component is unmounted: React runs the cleanup of the draw effect and
\* sets the refs of the removed elements to null.  Callbacks given to
\* requestAnimationFrame stay where they are.
Unmount ==
  /\ mounted
  /\ mounted' = FALSE
  /\ resizePending' = effectCleanup(resizePending)
  /\ ev' = EvNone("unmount")
  /\ Untouched
  /\ UNCHANGED << hits, durationSeconds, scrollLeft, clientWidth, rafQueue,
                  pendResizeDraws, envVars, jobVars, uiVars >>

\* The places of a click: the left edge, the middle, the right edge.
ClickXs(rectWidth) == { 0, rectWidth \div 2, rectWidth }

Init ==
  \E p \in SomeProps, w \in ClientWidths : Mount(p.hits, p.durationSeconds, w)

Next ==
  \/ \E left \in ScrollLefts : Scroll(left)
  \/ AnimationFrame
  \/ \E w \in ClientWidths : ContainerResize(w)
  \/ ResizeNotify
  \/ \E p \in SomeProps : SetProps(p.hits, p.durationSeconds)
  \/ \E clickX \in ClickXs(clientWidth) : MinimapClick(clickX, clientWidth)

Spec == Init /\ [][Next]_vars

\* One collection out of all, scrolled and resized: what draw paints.
InitDraw == \E h \in AllCollections, d \in Durations, w \in ClientWidths : Mount(h, d, w)

NextDraw ==
  \/ \E left \in ScrollLefts : Scroll(left)
  \/ AnimationFrame
  \/ \E w \in ClientWidths : ContainerResize(w)
  \/ ResizeNotify

SpecDraw == InitDraw /\ [][NextDraw]_vars

\* Recordings of every tick interval, scrolled and resized: what ticks draw
\* paints.
TickDurations == { 30, 31, 121 }

InitTicks ==
  \E h \in { << >>, HitsA }, d \in TickDurations, w \in ClientWidths : Mount(h, d, w)

SpecTicks == InitTicks /\ [][NextDraw]_vars

\* The component in every browser: contexts that are not given, displays of
\* either density, a theme that is toggled while the component is shown.
InitEnv ==
  \E p \in SomeProps, w \in ClientWidths, cx \in Contexts,
     dpr \in PixelRatios, dark \in BOOLEAN :
    MountIn(p.hits, p.durationSeconds, w, cx, dpr, dark)

NextEnv ==
  \/ \E left \in ScrollLefts : Scroll(left)
  \/ AnimationFrame
  \/ \E w \in ClientWidths : ContainerResize(w)
  \/ ResizeNotify
  \/ ThemeToggle

SpecEnv == InitEnv /\ [][NextEnv]_vars

\* The component from its mount to its unmount.
NextLife ==
  \/ Next
  \/ Unmount

SpecLife == Init /\ [][NextLife]_vars

\* No HitTimeline is mounted (the processing page has none).
NotMounted ==
  /\ hits = << >>
  /\ durationSeconds = 0
  /\ scrollLeft = 0
  /\ clientWidth = 0
  /\ rafQueue = << >>
  /\ resizePending = FALSE
  /\ canvas = NoSurface
  /\ minimap = NoSurface
  /\ minimapHitCache = NoCanvas
  /\ minimapCacheDirty = TRUE
  /\ buildsSinceDirty = 0
  /\ compositesSinceDirty = 0
  /\ pendResizeDraws = 0
  /\ ev = EvNone("none")
  /\ mounted = FALSE
  /\ context2d = AllContexts
  /\ devicePixelRatio = 1
  /\ isDark = FALSE

\* The request of the query meets the response res.  A job makes the page
\* render with its status; an error is retried when retry says so, after the
\* delay of the library, and recorded otherwise; then the timer is set.
Respond(res) ==
  /\ query.phase = "fetching"
  /\ LET r == fetchJobStatus(res)
     IN IF r.ok
        THEN /\ query' = updateRefetchInterval(
                           [ query EXCEPT !.data = r.data, !.error = NoError,
                                          !.failureCount = 0,
                                          !.last = [op |-> "ok", res |-> res] ])
             /\ page' = pageRender(page, r.data)
        ELSE IF retry(query.failureCount, r.error)
        THEN /\ query' = [ query EXCEPT !.failureCount = @ + 1,
                                        !.last = [op |-> "retry", res |-> res] ]
             /\ page' = page
        ELSE /\ query' = updateRefetchInterval(
                           [ query EXCEPT !.error = r.error,
                                          !.failureCount = @ + 1,
                                          !.last = [op |-> "error", res |-> res] ])
             /\ page' = page
  /\ UNCHANGED << timelineVars, uiVars >>

\* The refetch timer fires: the query fetches again.
RefetchTimer ==
  /\ query.phase = "waiting"
  /\ query' = [ query EXCEPT !.phase = "fetching", !.failureCount = 0,
                             !.polled = TRUE, !.last = [op |-> "timer"] ]
  /\ UNCHANGED << page, timelineVars, uiVars >>

\* TickMs pass on the processing page; a stale timer that is due fires and
\* sets isStale.
Tick ==
  /\ page' = [ page EXCEPT
                 !.staleTimer = IF @ = NoTimer \/ @ = 1 THEN NoTimer ELSE @ - 1,
                 !.isStale = IF page.staleTimer = 1 THEN TRUE ELSE @,
                 !.nonTerminalFor =
                   IF page.status # NoStatus /\ ~Terminal(page.status)
                   THEN Min(@ + 1, STALE_JOB_TIMEOUT_MS \div TickMs) ELSE 0 ]
  /\ UNCHANGED << query, timelineVars, uiVars >>

\* ProcessingPage is mounted: the query starts its first fetch and the
\* effect runs for a job that is undefined.
InitJob ==
  /\ NotMounted
  /\ NoUi
  /\ query = [ NoQuery EXCEPT !.phase = "fetching", !.last = [op |-> "start"] ]
  /\ page = staleEffect(NoPage, NoStatus)

NextJob ==
  \/ \E res \in Responses(query.data) : Respond(res)
  \/ RefetchTimer
  \/ Tick

SpecJob == InitJob /\ [][NextJob]_vars

\* The upload form: DropZone with the file of the form, and the hook that
\* uploads it.
DragOver ==
  /\ dropZone.file = NoFile
  /\ ~dropZone.isDragOver
  /\ dropZone' = [ dropZone EXCEPT !.isDragOver = TRUE, !.last = [op |-> "dragover"] ]
  /\ UNCHANGED << uploadState, nav, viewer, timelineVars, jobVars >>

DragLeave ==
  /\ dropZone.file = NoFile
  /\ dropZone.isDragOver
  /\ dropZone' = [ dropZone EXCEPT !.isDragOver = FALSE, !.last = [op |-> "dragleave"] ]
  /\ UNCHANGED << uploadState, nav, viewer, timelineVars, jobVars >>

\* onDrop of the drop area, rendered while the form has no file.
Drop(f) ==
  /\ dropZone.file = NoFile
  /\ dropZone.errorTimers < MaxErrorTimers
  /\ dropZone' = handleDrop(dropZone, f)
  /\ UNCHANGED << uploadState, nav, viewer, timelineVars, jobVars >>

\* onChange of the file input, rendered while the form has no file.
PickFile(f) ==
  /\ dropZone.file = NoFile
  /\ dropZone' = handleFileInput(dropZone, f)
  /\ UNCHANGED << uploadState, nav, viewer, timelineVars, jobVars >>

\* The button "Remove file" (lines 83-86).
RemoveFile ==
  /\ dropZone.file # NoFile
  /\ dropZone' = [ dropZone EXCEPT !.file = NoFile,
                                   !.last = [op |-> "remove", called |-> FALSE] ]
  /\ UNCHANGED << uploadState, nav, viewer, timelineVars, jobVars >>

\* A timeout of line 50 fires: setDropError(null).
ErrorTimeout ==
  /\ dropZone.errorTimers > 0
  /\ dropZone' = [ dropZone EXCEPT !.errorTimers = @ - 1, !.dropError = "null",
                                   !.last = [op |-> "timeout"] ]
  /\ UNCHANGED << uploadState, nav, viewer, timelineVars, jobVars >>

\* handleSubmit of the form with a large file: the hook uploads it.  The
\* button is disabled while isUploading.
Submit ==
  /\ dropZone.file # NoFile
  /\ isLargeFile(dropZone.file.size)
  /\ ~uploadState.isUploading
  /\ uploadState' = upload(uploadState)
  /\ UNCHANGED << dropZone, nav, viewer, timelineVars, jobVars >>

\* The events of the request that was sent.
UploadProgress(e) ==
  /\ uploadState.request = "sent"
  /\ uploadState' = onProgress(uploadState, e)
  /\ UNCHANGED << dropZone, nav, viewer, timelineVars, jobVars >>

UploadLoad(status, text) ==
  /\ uploadState.request = "sent"
  /\ uploadState' = onLoad(uploadState, status, text)
  /\ UNCHANGED << dropZone, nav, viewer, timelineVars, jobVars >>

UploadError ==
  /\ uploadState.request = "sent"
  /\ uploadState' = onError(uploadState)
  /\ UNCHANGED << dropZone, nav, viewer, timelineVars, jobVars >>

UploadTimeout ==
  /\ uploadState.request = "sent"
  /\ uploadState' = onTimeout(uploadState)
  /\ UNCHANGED << dropZone, nav, viewer, timelineVars, jobVars >>

\* A caller of the hook calls abort().
Abort ==
  /\ uploadState' = abort(uploadState)
  /\ uploadState' # uploadState
  /\ UNCHANGED << dropZone, nav, viewer, timelineVars, jobVars >>

ProgressEvents ==
  { [lengthComputable |-> FALSE, loaded |-> 0, total |-> 0],
    [lengthComputable |-> TRUE, loaded |-> 1, total |-> 3],
    [lengthComputable |-> TRUE, loaded |-> 1, total |-> 2],
    [lengthComputable |-> TRUE, loaded |-> 2, total |-> 2] }

InitUpload ==
  /\ NotMounted
  /\ query = NoQuery
  /\ page = NoPage
  /\ dropZone = EmptyDropZone
  /\ uploadState = IdleUpload
  /\ nav = NoNav
  /\ viewer = NoViewer

NextUpload ==
  \/ DragOver
  \/ DragLeave
  \/ \E f \in Files \cup {NoFile} : Drop(f)
  \/ \E f \in Files : PickFile(f)
  \/ RemoveFile
  \/ ErrorTimeout
  \/ Submit
  \/ \E e \in ProgressEvents : UploadProgress(e)
  \/ \E status \in UploadStatuses, text \in ResponseTexts : UploadLoad(status, text)
  \/ UploadError
  \/ UploadTimeout
  \/ Abort

SpecUpload == InitUpload /\ [][NextUpload]_vars

\* The sheet music viewer: the awaits of loadOSMD settle, the container is
\* resized, the parent gives another jobId or unmounts the viewer.
FetchSettles(i, outcome) ==
  /\ viewer.loads[i].pc = "fetch"
  /\ viewer' = fetchSettles(viewer, i, outcome)
  /\ UNCHANGED << dropZone, uploadState, nav, timelineVars, jobVars >>

TextSettles(i) ==
  /\ viewer.loads[i].pc = "text"
  /\ viewer' = textSettles(viewer, i)
  /\ UNCHANGED << dropZone, uploadState, nav, timelineVars, jobVars >>

ImportSettles(i) ==
  /\ viewer.loads[i].pc = "import"
  /\ viewer' = importSettles(viewer, i)
  /\ UNCHANGED << dropZone, uploadState, nav, timelineVars, jobVars >>

LoadSettles(i, ok) ==
  /\ viewer.loads[i].pc = "load"
  /\ viewer' = loadSettles(viewer, i, ok)
  /\ UNCHANGED << dropZone, uploadState, nav, timelineVars, jobVars >>

\* An observer that observes is notified: of a resize of the container, or
\* of the container leaving the document.
ViewerResize(i) ==
  /\ i \in viewer.observers
  /\ viewer' = viewerResizeCallback(viewer, i)
  /\ UNCHANGED << dropZone, uploadState, nav, timelineVars, jobVars >>

\* The parent renders the viewer with another jobId: the cleanup of the
\* effect, then the effect again.  The state of the component stays.
ChangeJob(jobId) ==
  /\ viewer.phase = "mounted"
  /\ jobId # viewer.jobId
  /\ Len(viewer.loads) < MaxLoads
  /\ viewer' = [ viewerCleanup(viewer) EXCEPT
                   !.jobId = jobId,
                   !.loads = Append(@, loadOSMD(jobId)),
                   !.last = [op |-> "jobId"] ]
  /\ UNCHANGED << dropZone, uploadState, nav, timelineVars, jobVars >>

ViewerUnmount ==
  /\ viewer.phase = "mounted"
  /\ viewer' = [ viewerCleanup(viewer) EXCEPT
                   !.phase = "unmounted", !.last = [op |-> "unmount"] ]
  /\ UNCHANGED << dropZone, uploadState, nav, timelineVars, jobVars >>

InitViewer ==
  /\ NotMounted
  /\ query = NoQuery
  /\ page = NoPage
  /\ dropZone = NoDropZone
  /\ uploadState = NoUpload
  /\ nav = NoNav
  /\ \E jobId \in JobIds : viewer = MountedViewer(jobId)

NextViewer ==
  \/ \E i \in DOMAIN viewer.loads, outcome \in {"ok", "notOk", "reject"} :
       FetchSettles(i, outcome)
  \/ \E i \in DOMAIN viewer.loads : TextSettles(i)
  \/ \E i \in DOMAIN viewer.loads : ImportSettles(i)
  \/ \E i \in DOMAIN viewer.loads, ok \in BOOLEAN : LoadSettles(i, ok)
  \/ \E i \in DOMAIN viewer.loads : ViewerResize(i)
  \/ \E jobId \in JobIds : ChangeJob(jobId)
  \/ ViewerUnmount

SpecViewer == InitViewer /\ [][NextViewer]_vars

\* The pages of one job.  The server renders ResultPage: getJob gives the
\* job of the backend or fails, getJobResult gives the result of a completed
\* job or fails.
ResultRequest(jobOk, resultOk) ==
  /\ nav.phase = "open" /\ nav.path = "/jobs/id/result" /\ nav.pc = "request"
  /\ resultOk => jobOk /\ nav.job = "completed"
  /\ LET to == ResultPage([ok |-> jobOk, status |-> nav.job], [ok |-> resultOk])
     IN nav' = IF to = "render"
               THEN [ nav EXCEPT !.pc = "rendered",
                                 !.last = [op |-> "render", redirect |-> FALSE] ]
               ELSE goTo(nav, to, "result")
  /\ UNCHANGED << dropZone, uploadState, viewer, timelineVars, jobVars >>

\* ProcessingPage mounts: the query gives the status it holds in its cache,
\* if it holds one, the effect runs, and the query fetches.
ProcessingMount(cached) ==
  /\ nav.phase = "open" /\ nav.path = "/jobs/id" /\ nav.pc = "mount"
  /\ LET data == IF cached THEN nav.data ELSE NoStatus
         to == redirectEffect(data)
     IN nav' = IF to = "stay"
               THEN [ nav EXCEPT !.data = data, !.pc = "polling",
                                 !.last = [op |-> "mount", redirect |-> FALSE] ]
               ELSE goTo([ nav EXCEPT !.data = data ], to, "processing")
  /\ UNCHANGED << dropZone, uploadState, viewer, timelineVars, jobVars >>

\* A fetch of the query of ProcessingPage settles: with the job of the
\* backend, and the effect runs for its status, or with an error.
ProcessingFetch(ok) ==
  /\ nav.phase = "open" /\ nav.path = "/jobs/id" /\ nav.pc = "polling"
  /\ ~Terminal(nav.data)
  /\ nav' = IF ~ok
            THEN [ nav EXCEPT !.last = [op |-> "fetchError", redirect |-> FALSE] ]
            ELSE LET to == redirectEffect(nav.job)
                 IN IF to = "stay"
                    THEN [ nav EXCEPT !.data = nav.job,
                                      !.last = [op |-> "fetch", redirect |-> FALSE] ]
                    ELSE goTo([ nav EXCEPT !.data = nav.job ], to, "processing")
  /\ UNCHANGED << dropZone, uploadState, viewer, timelineVars, jobVars >>

\* The backend moves the job on.
JobAdvances(status) ==
  /\ nav.phase = "open"
  /\ ~Terminal(nav.job)
  /\ Rank(status) > Rank(nav.job)
  /\ nav' = [ nav EXCEPT !.job = status,
                         !.last = [op |-> "job", redirect |-> FALSE] ]
  /\ UNCHANGED << dropZone, uploadState, viewer, timelineVars, jobVars >>

InitNav ==
  /\ NotMounted
  /\ query = NoQuery
  /\ page = NoPage
  /\ dropZone = NoDropZone
  /\ uploadState = NoUpload
  /\ viewer = NoViewer
  /\ \E path \in {"/jobs/id", "/jobs/id/result"}, i \in 1..Len(JobStatuses) :
       nav = OpenNav(path, JobStatuses[i])

NextNav ==
  \/ \E jobOk, resultOk \in BOOLEAN : ResultRequest(jobOk, resultOk)
  \/ \E cached \in BOOLEAN : ProcessingMount(cached)
  \/ \E ok \in BOOLEAN : ProcessingFetch(ok)
  \/ \E i \in 1..Len(JobStatuses) : JobAdvances(JobStatuses[i])

\* Every request and every fetch that has begun settles.
SpecNav == InitNav /\ [][NextNav]_vars /\ WF_vars(NextNav)

(***************************************************************************)
(* The claims.                                                             *)
(***************************************************************************)
\* x of a hit as the claims state it, HEADER_WIDTH + time * PIXELS_PER_SECOND,
\* times TimeRes.
PixelX(hit) == 100 * TimeRes + hit.time * 80

\* The hit lies in [scrollLeft - 200, scrollLeft + clientWidth + 200].
InExpandedWindow(hit, left, width) ==
  /\ (left - 200) * TimeRes <= PixelX(hit)
  /\ PixelX(hit) <= (left + width + 200) * TimeRes

\* The markers the primary canvas shows for hit i of the collection drawn.
MarkersOf(i) == { k \in 1..Len(canvas.markers) : canvas.markers[k].hit = i }

\* C1: scroll events that arrive while a callback waits for the frame register
\* no further callback, so that one callback waits at most and a frame runs
\* draw and drawMinimap once at most.
C1_ScrollEventsCoalesced ==
  /\ Len(rafQueue) <= 1
  /\ (ev.op = "scroll" /\ ev.waiting > 0 => ev.registered = 0)
  /\ (ev.op = "frame" => ev.draws <= 1 /\ ev.calls <= 1)

\* C2: neither the scroll handler nor the callback of the ResizeObserver calls
\* draw or drawMinimap itself.
C2_HandlersNeverDrawSynchronously ==
  ev.op \in {"scroll", "resize"} => ev.draws = 0 /\ ev.calls = 0

\* C3: when a resize notification arrived while the callback of one scroll
\* event was waiting, the notification and the frame have drawn the primary
\* canvas once between them, at the width after the resize.
C3_ResizeWhilePendingOneRedraw ==
  ev.op = "frame" /\ ev.waiting = 1 /\ ev.resizeDraws >= 1 =>
    /\ ev.draws + ev.resizeDraws = 1
    /\ canvas.clientWidth = clientWidth

\* C4: a hit of a known instrument with 0 <= time <= duration has its marker
\* on the primary canvas (once) exactly if its x lies in the expanded window
\* of the scroll position and width the canvas was drawn at.
C4_HitPaintedIffInWindow ==
  canvas.kind = "painted" =>
    \A i \in 1..Len(canvas.hits) :
      LET hit == canvas.hits[i]
          eligible == /\ INSTRUMENT_INDEX_MAP(hit.instrument) # Undefined
                      /\ 0 <= hit.time
                      /\ hit.time <= canvas.durationSeconds * TimeRes
      IN eligible =>
           /\ (MarkersOf(i) # {}) <=>
                InExpandedWindow(hit, canvas.scrollLeft, canvas.clientWidth)
           /\ Cardinality(MarkersOf(i)) <= 1

\* C4 witness: drawn away from the left end, a hit on the left edge of the
\* window is painted and a hit 0.01 s before it is not.
C4_Witness ==
  /\ canvas.kind = "painted"
  /\ canvas.scrollLeft > 200
  /\ \E i, j \in 1..Len(canvas.hits) :
       /\ PixelX(canvas.hits[i]) = (canvas.scrollLeft - 200) * TimeRes
       /\ MarkersOf(i) # {}
       /\ canvas.hits[j].time = canvas.hits[i].time - 1
       /\ MarkersOf(j) = {}

C7_BitmapBuiltOncePerInvalidation ==
  /\ buildsSinceDirty <= 1
  /\ compositesSinceDirty >= 1 => buildsSinceDirty = 1
  /\ ev.composites >= 1 => minimap.bitmap = minimapHitCache
  /\ ev.op = "frame" /\ ev.wasValid => ev.builds = 0

\* C7 witness: two calls of drawMinimap in one frame, and more composites
\* than one since the cache was marked dirty, with one bitmap built.
C7_Witness ==
  /\ ev.op = "frame"
  /\ ev.composites >= 2
  /\ ev.builds = 0
  /\ compositesSinceDirty = 2
  /\ buildsSinceDirty = 1

\* C8: the bitmap getMinimapHitCache returned to a composite was built at the
\* width the composite asked for.
C8_CacheReusedOnlyAtRequestedWidth ==
  minimap.kind = "painted" => minimap.bitmap.width = minimap.width

\* C9: with durationSeconds <= 60 no minimap canvas is rendered, and no step
\* paints one or builds the bitmap; with durationSeconds > 60 the canvas is
\* rendered and every call of drawMinimap by a render with durationSeconds >
\* 60 composes the cached bitmap and the viewport indicator.
C9_MinimapOnlyAboveThreshold ==
  /\ durationSeconds <= 60 =>
       minimap = NoSurface /\ ev.composites = 0 /\ ev.builds = 0
  /\ durationSeconds > 60 =>
       /\ minimap.kind = "painted"
       /\ minimap.bitmap.kind = "bitmap"
       /\ minimap.vpW.n > 0
       /\ ev.composites = ev.active

\* C9 witness: at durationSeconds = 60 a frame ran drawMinimap, for a scroll
\* event of before, and nothing was painted.
C9_Witness ==
  /\ durationSeconds = 60
  /\ ev.op = "frame"
  /\ ev.calls >= 1
  /\ minimap = NoSurface

\* C10: a click at the fraction r of the width of the minimap asks for a
\* scroll to max(0, r * totalWidth - clientWidth / 2), which is never
\* negative; r = 0.5, totalWidth = 1000, clientWidth = 200 give 400.
C10_ClickTarget ==
  /\ ev.op = "click" =>
       LET r == ev.ratio
           tw == 100 + durationSeconds * 80
           \* r * tw - clientWidth / 2, times 2 * r.d
           raw == 2 * r.n * tw - clientWidth * r.d
       IN /\ ev.target.d > 0
          /\ ev.target.n >= 0
          /\ IF raw >= 0 THEN ev.target.n * 2 * r.d = raw * ev.target.d
             ELSE ev.target.n = 0
  /\ RatEq(clickTarget(1, 2, 1000, 200), 400)

\* C10 witness: a click in the middle of the minimap, and a target > 0.
C10_Witness ==
  /\ ev.op = "click"
  /\ 2 * ev.ratio.n = ev.ratio.d
  /\ ev.target.n > 0

\* The instrument of the hit is a row of the timeline.
KnownInstrument(hit) == INSTRUMENT_INDEX_MAP(hit.instrument) # Undefined

\* What the markers ms, painted for the collection h, show: the hit and the
\* circle of each, in the order they were painted.
Shown(ms, h) ==
  [ k \in 1..Len(ms) |->
      [ hit |-> h[ms[k].hit], x |-> ms[k].x, y |-> ms[k].y,
        radius |-> ms[k].radius, alpha |-> ms[k].alpha ] ]

\* C11: a hit whose instrument is no row has no marker on the primary canvas
\* and no mark in the bitmap of the minimap, and the canvas and the bitmap
\* show the other hits exactly as a draw and a build of the collection
\* without the unknown hits show them.
C11_UnknownInstrumentSkipped ==
  /\ canvas.kind = "painted" =>
       LET known == SelectSeq(canvas.hits, KnownInstrument)
       IN /\ \A k \in 1..Len(canvas.markers) :
               KnownInstrument(canvas.hits[canvas.markers[k].hit])
          /\ Shown(canvas.markers, canvas.hits) =
               Shown(paintHits(known, 1, canvas.scrollLeft, canvas.clientWidth), known)
  /\ minimapHitCache.kind = "bitmap" =>
       LET known == SelectSeq(minimapHitCache.hits, KnownInstrument)
       IN /\ \A i \in minimapHitCache.marks : KnownInstrument(minimapHitCache.hits[i])
          /\ { minimapHitCache.hits[i] : i \in minimapHitCache.marks } =
               { known[i] : i \in minimapMarks(known) }

\* C11 witness: a frame drew a collection with an unknown hit inside the
\* window between two known hits, both painted, and the bitmap of the
\* minimap was built from that collection.
C11_Witness ==
  /\ ev.op = "frame"
  /\ canvas.kind = "painted"
  /\ minimapHitCache.kind = "bitmap"
  /\ minimapHitCache.hits = canvas.hits
  /\ \E i, j, u \in 1..Len(canvas.hits) :
       /\ i < u /\ u < j
       /\ ~KnownInstrument(canvas.hits[u])
       /\ InExpandedWindow(canvas.hits[u], canvas.scrollLeft, canvas.clientWidth)
       /\ MarkersOf(i) # {} /\ MarkersOf(j) # {}
       /\ MarkersOf(u) = {}
       /\ {i, j} \subseteq minimapHitCache.marks
       /\ u \notin minimapHitCache.marks

\* C15: a marker of velocity 0 has radius 3 and alpha 0.4, one of velocity 1
\* has radius 8 and alpha 1.0; for a velocity of [0, 1] radius and alpha lie
\* on the line between these ends, within [3, 8] and [0.4, 1.0], and a hit of
\* greater velocity has no smaller radius and no smaller alpha.
C15_VelocityToRadiusAndAlpha ==
  canvas.kind = "painted" =>
    LET v(m) == canvas.hits[m.hit].velocity
        ms == { canvas.markers[k] : k \in 1..Len(canvas.markers) }
    IN /\ \A m \in ms :
            v(m) \in 0..VelRes =>
              /\ (v(m) = 0 => m.radius = 3 * VelRes /\ m.alpha = 4 * VelRes)
              /\ (v(m) = VelRes => m.radius = 8 * VelRes /\ m.alpha = 10 * VelRes)
              /\ m.radius - 3 * VelRes = (8 - 3) * v(m)
              /\ m.alpha - 4 * VelRes = (10 - 4) * v(m)
              /\ 3 * VelRes <= m.radius /\ m.radius <= 8 * VelRes
              /\ 4 * VelRes <= m.alpha /\ m.alpha <= 10 * VelRes
       /\ \A m, n \in ms :
            v(m) <= v(n) => m.radius <= n.radius /\ m.alpha <= n.alpha

\* C15 witness: a frame painted markers of velocity 0, of velocity 1 and of a
\* velocity between them.
C15_Witness ==
  /\ ev.op = "frame"
  /\ canvas.kind = "painted"
  /\ \E a, b, c \in 1..Len(canvas.markers) :
       /\ canvas.hits[canvas.markers[a].hit].velocity = 0
       /\ canvas.hits[canvas.markers[b].hit].velocity = VelRes
       /\ canvas.hits[canvas.markers[c].hit].velocity \in 1..(VelRes - 1)

\* C13: with an empty hits collection the primary canvas shows no marker and
\* the minimap is suppressed: no minimap canvas is rendered and no step
\* composes one.
C13_EmptyDatasetGridOnly ==
  hits = << >> =>
    /\ canvas.kind = "painted" /\ canvas.markers = << >>
    /\ minimap = NoSurface
    /\ ev.composites = 0

\* C12: when getContext("2d") gives no context for a canvas, draw and
\* drawMinimap leave its size and what it shows as they are, and the cache
\* with them; a build whose offscreen canvas gets no context leaves the cache
\* empty and marked dirty; and every frame after a scroll and every resize
\* notification calls draw and drawMinimap again.
C12_NoContextNoEffect ==
  /\ ~context2d.canvas => canvas = Blank /\ ev.draws = 0
  /\ ~context2d.minimap =>
       /\ minimap \in {Blank, NoSurface}
       /\ minimapHitCache = NoCanvas /\ minimapCacheDirty
       /\ ev.composites = 0 /\ ev.builds = 0
  /\ ~context2d.offscreen =>
       /\ minimapHitCache = NoCanvas /\ minimapCacheDirty
       /\ ev.builds = 0
       /\ (minimap.kind = "painted" => minimap.bitmap = NoCanvas)
  /\ ~context2d.canvas /\ ~context2d.minimap => ~ev.touched
  /\ ev.op \in {"frame", "resize"} => ev.drawCalls >= 1 /\ ev.calls >= 1

\* C12 witness: no canvas gets a context, and a frame after a scroll has
\* called draw and drawMinimap of a render that shows the minimap; nothing
\* was painted.
C12_Witness ==
  /\ ~context2d.canvas /\ ~context2d.minimap /\ ~context2d.offscreen
  /\ ev.op = "frame"
  /\ ev.drawCalls >= 1 /\ ev.active >= 1
  /\ canvas = Blank /\ minimap = Blank

\* C14: a call of draw and drawMinimap that follows a call with the same
\* hits, duration, scroll position, width, theme and pixel ratio leaves the
\* primary canvas, the minimap canvas and the cache as the first call left
\* them; the transform of each context is one scale by the pixel ratio, and
\* the minimap shows one viewport indicator.
C14_RepeatedDrawIdempotent ==
  /\ canvas.kind = "painted" =>
       /\ canvas.transform = devicePixelRatio
       /\ canvas.backingWidth = canvas.width * devicePixelRatio
  /\ minimap.kind = "painted" =>
       /\ minimap.transform = devicePixelRatio
       /\ minimap.backingWidth = minimap.width * devicePixelRatio
       /\ minimap.indicators = 1
  /\ LET again == frameCallback(Dom, Closure(hits, durationSeconds), vp)
         canvasCurrent ==
           /\ canvas.kind = "painted"
           /\ canvas.hits = hits /\ canvas.durationSeconds = durationSeconds
           /\ canvas.scrollLeft = scrollLeft /\ canvas.clientWidth = clientWidth
           /\ canvas.isDark = isDark
         minimapCurrent ==
           /\ minimap.kind = "painted"
           /\ minimap.width = clientWidth
           /\ minimap.vpX.n = scrollLeft * clientWidth
           /\ minimap.isDark = isDark
     IN /\ canvasCurrent => again.canvas = canvas
        /\ minimapCurrent =>
             /\ again.minimap = minimap
             /\ again.minimapHitCache = minimapHitCache
             /\ again.minimapCacheDirty = minimapCacheDirty

\* C14 witness: on a display of pixel ratio 2 one frame has run draw and
\* drawMinimap twice each, and the contexts are scaled by 2, with one
\* indicator on the minimap.
C14_Witness ==
  /\ ev.op = "frame"
  /\ ev.draws >= 2 /\ ev.composites >= 2
  /\ devicePixelRatio = 2
  /\ canvas.kind = "painted" /\ canvas.transform = 2
  /\ minimap.kind = "painted" /\ minimap.transform = 2 /\ minimap.indicators = 1

\* C17: a toggle of the theme by itself draws nothing and changes no surface
\* and no cache state, and all that a draw or a composite of the minimap
\* paints has the colours of the theme read during that call: the bitmap a
\* composite shows has the theme of its viewport indicator.
C17_ThemeReadAtDrawTime ==
  /\ ev.op = "theme" => ev.drawCalls = 0 /\ ev.calls = 0 /\ ~ev.touched
  /\ minimap.kind = "painted" /\ minimap.bitmap # NoCanvas =>
       minimap.bitmap.isDark = minimap.isDark

\* C16: the unmount disconnects the ResizeObserver, so that no notification
\* of it is delivered afterwards, and a callback that was waiting for the
\* frame when the component was unmounted paints no surface and changes
\* neither the cache nor its flag.
C16_NoEffectAfterTeardown ==
  ~mounted =>
    /\ ~resizePending
    /\ ev.op \in {"unmount", "frame"}
    /\ ~ev.touched
    /\ ev.draws = 0 /\ ev.composites = 0 /\ ev.builds = 0

\* C16 witness: after the unmount a frame has run the callback of a scroll
\* event of before, which called draw and drawMinimap.
C16_Witness ==
  /\ ~mounted
  /\ ev.op = "frame"
  /\ ev.drawCalls >= 1 /\ ev.calls >= 1
  /\ ~ev.touched

\* C18: while the status fetched last is not terminal and no error is
\* recorded, the next fetch is scheduled 2000 ms after the last; once a status
\* fetched is completed or failed no fetch is scheduled or runs.
C18_PollsUntilTerminal ==
  /\ query.phase \in {"waiting", "idle"} /\ query.data # NoStatus
       /\ ~Terminal(query.data) /\ query.error = NoError =>
         query.phase = "waiting" /\ query.interval = Num(2000)
  /\ Terminal(query.data) => query.phase = "idle" /\ query.interval = False

\* C18 witness: the timer has started a fetch and a later fetch has brought
\* a terminal status; nothing is scheduled.
C18_Witness ==
  /\ query.polled
  /\ query.last.op = "ok"
  /\ Terminal(query.data)
  /\ query.phase = "idle"

\* The number a text of digits stands for.
RECURSIVE DecimalValue(_, _)
DecimalValue(text, acc) ==
  IF text = << >> THEN acc
  ELSE DecimalValue(Tail(text), acc * 10 + DigitOf(Head(text)))

\* C19: a fetch answered by 429 is not retried, and the next fetch is
\* scheduled as many seconds later as the Retry-After header says, 10 when
\* there is no such header.
C19_BackoffAfter429 ==
  query.last.op \in {"retry", "error"} /\ query.last.res.kind = "http"
    /\ query.last.res.status = 429 =>
      LET header == query.last.res.retryAfter
      IN /\ query.last.op = "error"
         /\ query.phase = "waiting"
         /\ ~header.present => query.interval = Num(10 * 1000)
         /\ header.present /\ (\A k \in 1..Len(header.text) : IsDigit(header.text[k])) =>
              query.interval = Num(DecimalValue(header.text, 0) * 1000)

\* C20: once the job has been in a non-terminal status for 15 minutes without
\* a break the stale-job warning is shown, and it is not shown for a job whose
\* status is completed or failed.
C20_StaleWarningAfter15Minutes ==
  /\ page.nonTerminalFor * TickMs >= 15 * 60 * 1000 => staleAlert(page)
  /\ Terminal(page.status) => ~staleAlert(page)

\* The extension of a name: what follows its last ".", if it has one.
HasAcceptedExtension(name) ==
  \E k \in 1..Len(name) :
    /\ name[k] = "."
    /\ \A j \in (k + 1)..Len(name) : name[j] # "."
    /\ toLowerCase(SubSeq(name, k, Len(name))) \in ACCEPTED_AUDIO_EXTENSIONS

\* C21: a file DropZone has given to onFileSelect, dropped or picked, has an
\* accepted MIME type or an accepted extension, and at most 50 MB.
C21_OnlyValidFilesSelected ==
  dropZone.phase = "rendered" /\ dropZone.last.op \in {"drop", "pick"}
    /\ dropZone.last.called =>
      LET f == dropZone.last.passed
      IN /\ f.type \in ACCEPTED_AUDIO_TYPES \/ HasAcceptedExtension(f.name)
         /\ f.size <= 50 * 1024 * 1024

\* C27: a promise of upload that is pending belongs to a request under way,
\* whose load, error or timeout will resolve it, also after abort(); no
\* promise is rejected or left for ever; and once the promise has settled
\* isUploading is false.
C27_UploadPromiseSettles ==
  /\ uploadState.phase = "rendered" =>
       /\ uploadState.promise = "pending" => uploadState.request = "sent"
       /\ uploadState.promise # "rejected"
       /\ ~uploadState.abandoned
       /\ uploadState.promise = "resolved" /\ uploadState.request # "sent" =>
            ~uploadState.isUploading

\* C22 as stated: a tick the primary canvas shows has its x in the expanded
\* window of the hits, [scrollLeft - 200, scrollLeft + clientWidth + 200].
C22_TicksInHitWindow ==
  canvas.kind = "painted" =>
    \A t \in canvas.ticks :
      LET x == 100 + t * 80
      IN /\ canvas.scrollLeft - 200 <= x
         /\ x <= canvas.scrollLeft + canvas.clientWidth + 200

\* C22 amended: the canvas shows the tick of a second t of 0..duration that
\* is a multiple of the tick interval exactly if its x lies in the window of
\* the hits widened by 50 on either side,
\* [max(0, scrollLeft - 200) - 50, scrollLeft + clientWidth + 250].
C22_TicksInWidenedWindow ==
  canvas.kind = "painted" =>
    LET d == canvas.durationSeconds
        step == IF d > 120 THEN 10 ELSE IF d > 30 THEN 5 ELSE 1
        left == IF canvas.scrollLeft > 200 THEN canvas.scrollLeft - 250 ELSE -50
        right == canvas.scrollLeft + canvas.clientWidth + 250
    IN \A t \in 0..d :
         t \in canvas.ticks <=>
           /\ t % step = 0
           /\ left <= 100 + t * 80
           /\ 100 + t * 80 <= right

\* C22 witness: a frame after a scroll drew ticks, one of them in the margin
\* beyond the window of the hits, and left ticks out on either side.
C22_Witness ==
  /\ ev.op = "frame"
  /\ canvas.kind = "painted"
  /\ canvas.scrollLeft > 200
  /\ \E t \in canvas.ticks :
       100 + t * 80 > canvas.scrollLeft + canvas.clientWidth + 200
  /\ \E t, u \in 0..canvas.durationSeconds :
       /\ t \notin canvas.ticks /\ u \notin canvas.ticks
       /\ 100 + t * 80 < canvas.scrollLeft - 250
       /\ 100 + u * 80 > canvas.scrollLeft + canvas.clientWidth + 250

\* C23: a resize notification that composites the minimap builds the bitmap
\* anew, once, at the width the container has now, and composites that
\* bitmap: the bitmap cached before the notification is not reused.
C23_ResizeRebuildsAtNewWidth ==
  ev.op = "resize" /\ ev.composites > 0 =>
    /\ ev.builds = 1
    /\ ~minimapCacheDirty
    /\ minimapHitCache.width = clientWidth
    /\ minimap.bitmap = minimapHitCache
    /\ minimap.width = clientWidth

\* C23 witness: the notification found a valid bitmap of another width than
\* the container has now, and the minimap shows a bitmap of the new width.
C23_Witness ==
  /\ ev.op = "resize"
  /\ ev.wasValid
  /\ ev.cachedWidth # 0 /\ ev.cachedWidth # clientWidth
  /\ ev.composites = 1 /\ ev.builds = 1
  /\ minimap.kind = "painted"
  /\ minimap.bitmap.width = clientWidth

\* C24: once the component has been given its props and the draw effect has
\* painted, the primary canvas shows the hits and the duration of the
\* current props, also after an animation frame ran the callbacks that
\* scroll events had registered.
C24_SurfaceShowsCurrentProps ==
  canvas.kind = "painted" =>
    /\ canvas.hits = hits
    /\ canvas.durationSeconds = durationSeconds
    /\ canvas.width = totalWidth(durationSeconds)

\* C26: while the status fetched last is not terminal, what refetchInterval
\* answered when the last fetch settled is a finite number greater than 0,
\* whatever error is recorded, and the timer of the next fetch is set.
C26_IntervalPositiveUntilTerminal ==
  query.phase \in {"waiting", "idle"} /\ query.data # NoStatus
    /\ ~Terminal(query.data) =>
      /\ query.interval.kind = "number"
      /\ query.interval.n > 0
      /\ query.phase = "waiting"

\* C28: whenever the processing page renders ProgressStepper with a status
\* other than failed, aria-valuenow is in 1..5 and not less than it was for
\* the status rendered before, and while the status is not completed exactly
\* one step is rendered as the current one.
C28_StepperNeverGoesBack ==
  [][ page'.status # NoStatus /\ page'.status # "failed" =>
        LET now == ProgressStepper(page'.status)
        IN /\ now.valuenow >= 1 /\ now.valuenow <= 5
           /\ page.status # NoStatus =>
                now.valuenow >= ProgressStepper(page.status).valuenow
           /\ page'.status # "completed" => Cardinality(now.current) = 1 ]_vars

\* C29: of a run of loadOSMD whose effect has been cleaned up (the viewer
\* was unmounted or given another jobId) no ResizeObserver observes, and no
\* step such a run or its observer takes after the cleanup renders the score
\* or sets state.
C29_NothingAfterCleanup ==
  viewer.phase # "none" =>
    /\ \A i \in viewer.observers : ~viewer.loads[i].cancelled
    /\ viewer.last.op \in {"fetch", "text", "import", "load", "resize"}
         /\ viewer.last.cancelled =>
           ~viewer.last.rendered /\ ~viewer.last.setState

\* C25: from some point on no step is a redirect of a page of the job, whatever
\* the status of the job and whatever the fetches of its result give.
C25_NavigationSettles == <>[][~nav'.last.redirect]_vars

====
